---- MODULE Spec2Model ----
(***************************************************************************)
(* The guarded transaction submission pipeline of the four drivers:        *)
(*   "liq"   LiquidityAdder.add_liquidity      (addLiquidity.py)           *)
(*   "s2b"   TokenSwap.execute_swap            (super_to_black.py)         *)
(*   "b2s"   TokenSwap.execute_swap            (black_to_super.py)         *)
(*   "stake" TokenStaker.deposit               (stake.py)                  *)
(* One behaviour is one run of one driver against the remote ledger.  The  *)
(* driver's steps are its remote calls; the ledger includes broadcast      *)
(* transactions on its own schedule (IncludeTx).                           *)
(*                                                                         *)
(* Amounts are counted in units of 5 * 10^14 base units, so that           *)
(* MIN_STAKE_AMOUNT (10^15) is 2 units.                                    *)
(***************************************************************************)
EXTENDS Integers, Sequences, FiniteSets

\* ---------------------------------------------------------------- bounds
MaxAmount == 2
MaxGas == 5

\* ------------------------------------------------------ program constants
MIN_STAKE_AMOUNT == 2
\* The gas limit of an approval; 100000 in every guard.
APPROVE_GAS_FROM_ESTIMATE == (MaxGas * 12) \div 10
APPROVE_GAS == 100000
RECEIPT_TIMEOUT == 120

Drivers == {"liq", "s2b", "b2s", "stake"}
Legs == 1..2
NoHash == 0
Unavailable == -1

\* config.TOKEN_ADDRESS, and any other address stakingToken() may answer.
TOKEN_ADDRESS == "TOKEN_ADDRESS"
OtherToken == "other"

\* GAS_MULTIPLIER in tenths: 1.2 in the liquidity and swap drivers, 1.5 in
\* the stake driver.
GAS_MULTIPLIER_BELOW_ONE(d) == IF d = "stake" THEN 5 ELSE 8
GAS_MULTIPLIER(d) == IF d = "stake" THEN 15 ELSE 12

\* int(estimated_gas * GAS_MULTIPLIER): a float product truncated toward
\* zero.  For gas values below 2^52 the double product of an integer with
\* 1.2 or 1.5 rounds to a value with the same integer part as the exact
\* product, so the result is the integer quotient.
PadGasNoMargin(estimated_gas, m) == estimated_gas
PadGas(estimated_gas, m) == (estimated_gas * m) \div 10

\* `if allowance < amount:` the guard's decision to approve.
NeedsApprovalOffByOne(allowance_, amount_) == allowance_ <= amount_
NeedsApproval(allowance_, amount_) == allowance_ < amount_

\* approve(spender, amount): the amount argument of the approval call.
ApproveAmountUnlimited(amount_) == MaxAmount + 1
ApproveAmount(amount_) == amount_

\* The timeout arguments a driver passes to wait_for_transaction_receipt:
\* timeout=120 in the liquidity and swap drivers; the stake driver passes
\* none and waits for as long as the client's default lets it.
WaitTimeoutArgs(d) == IF d = "stake" THEN {} ELSE {RECEIPT_TIMEOUT}

\* `if receipt.status != 1: raise` in the guard.
ApprovalFailedNever(status) == FALSE
ApprovalFailed(status) == status # "success"

\* `if receipt.status == 1: return tx_hash` in the primary call.
ReceiptSucceededAlways(status) == TRUE
ReceiptSucceeded(status) == status = "success"

VARIABLES
  driver,        \* which driver this run executes
  amount,        \* required amount of each leg (amount_in / amount_a, amount_b)
  pc,            \* the driver's position
  leg,           \* the leg check_balance_and_approval is working on
  tokBalance,    \* ledger: balanceOf(signer) of each leg's token
  tokAllowance,  \* ledger: allowance(signer, spender) of each leg's token
  chainNonce,    \* ledger: get_transaction_count(signer)
  maxStake,      \* ledger: maxStakePerUser(), or Unavailable
  userStaked,    \* ledger: staking balanceOf(signer)
  paused,        \* ledger: the staking contract's paused()
  stakingToken,  \* ledger: the staking contract's stakingToken()
  txs,           \* every transaction broadcast so far; its index is its hash
  balance,       \* local: last balance read
  allowance,     \* local: last allowance read
  cap_check,     \* local: branch taken by the stake cap check
  estimated_gas, \* local: result of estimate_gas
  txn,           \* local: the built, not yet sent transaction
  tx_hash,       \* local: hash returned by send_raw_transaction
  result,        \* what the driver handed to its caller
  balance_ok,    \* legs whose balance was read and found sufficient
  allowance_ok,  \* legs whose allowance was read or made sufficient
  receipts,   \* <<hash, status>> of every receipt a wait returned
  estimate_reverted, \* the ledger answered estimate_gas with a revert
  is_connected,  \* what is_connected() answered in initialize
  peer,          \* a second orchestrator running for the same signer
  output         \* what main() printed, and the exit status it chose

vars == <<driver, amount, pc, leg, tokBalance, tokAllowance, chainNonce,
          maxStake, userStaked, txs, balance, allowance, cap_check,
          estimated_gas, txn, tx_hash, result, balance_ok, allowance_ok,
          receipts, estimate_reverted, paused, is_connected, peer,
          stakingToken, output>>

ledger == <<tokBalance, tokAllowance, chainNonce, maxStake, userStaked,
            paused, stakingToken, txs>>
locals == <<balance, allowance, cap_check, estimated_gas, txn, tx_hash>>
ghosts == <<balance_ok, allowance_ok, receipts, estimate_reverted>>
inputs == <<driver, amount>>

\* What no step of the run changes once initialize is over.
context == <<driver, amount, is_connected, peer, output>>

\* The second orchestrator: not started, or at a step of its primary call.
PeerOff == [pc |-> "off", nonce |-> 0, hash |-> NoHash]
PeerStarted == [pc |-> "build_transaction", nonce |-> 0, hash |-> NoHash]

NoTx == [kind |-> "none", leg |-> 0, nonce |-> 0, gas |-> 0, value |-> 0,
         status |-> "none"]

\* Nothing printed yet by main().
NoOutput == [line |-> "none", hash |-> NoHash, exit |-> 0]

Running == [kind |-> "running", hash |-> NoHash, err |-> "none",
            detail |-> <<>>]

\* The driver raises: the exception text built by the driver names no
\* transaction hash.
Raised(e) == [kind |-> "raised", hash |-> NoHash, err |-> e, detail |-> <<>>]

\* The driver returns tx_hash_hex.
Returned(h) == [kind |-> "returned", hash |-> h, err |-> "none",
                detail |-> <<>>]

InitRun ==
  /\ driver \in Drivers
  /\ amount \in [Legs -> 0..MaxAmount]
  /\ tokBalance \in [Legs -> 0..MaxAmount]
  /\ tokAllowance \in [Legs -> 0..MaxAmount]
  /\ driver # "liq" => amount[2] = 0 /\ tokBalance[2] = 0 /\ tokAllowance[2] = 0
  /\ maxStake \in IF driver = "stake" THEN {Unavailable} \cup 0..MaxAmount
                  ELSE {Unavailable}
  /\ userStaked \in IF driver = "stake" THEN 0..MaxAmount ELSE {0}
  /\ paused \in IF driver = "stake" THEN BOOLEAN ELSE {FALSE}
  /\ stakingToken \in IF driver = "stake" THEN {TOKEN_ADDRESS, OtherToken}
                       ELSE {TOKEN_ADDRESS}
  /\ is_connected = "unchecked"
  /\ chainNonce = 0
  /\ txs = <<>>
  /\ pc = "initialize"
  /\ leg = 0
  /\ balance = 0
  /\ allowance = 0
  /\ cap_check = "none"
  /\ estimated_gas = 0
  /\ txn = NoTx
  /\ tx_hash = NoHash
  /\ result = Running
  /\ balance_ok = {}
  /\ allowance_ok = {}
  /\ receipts = {}
  /\ estimate_reverted = FALSE
  /\ output = NoOutput

\* One run, alone on its signer.
Init == InitRun /\ peer = PeerOff

\* The run, and a second orchestrator started for the same signer.
InitConcurrent == InitRun /\ peer = PeerStarted

\* w3.eth.get_transaction_count(address): the signer's transaction count on
\* the ledger at the time of the call.
get_transaction_count_cached ==
  IF txs = <<>> THEN chainNonce ELSE txs[1].nonce
get_transaction_count == chainNonce

\* A raise that leaves the driver: the run is over.
Fail(e) ==
  /\ pc' = "done"
  /\ result' = Raised(e)

\* The client's TimeExhausted leaves the driver as it was raised: the driver
\* drops its local tx_hash and adds nothing, so whether the exception text
\* names the hash is the client library's choice.
FailTimeout ==
  /\ pc' = "done"
  /\ \E h \in {NoHash, tx_hash} :
       result' = [kind |-> "raised", hash |-> h, err |-> "TimeExhausted",
                  detail |-> <<>>]

\* initialize() of the stake driver compares stakingToken() with the
\* configured token inside a try whose `except Exception` logs a warning: the
\* mismatch raise is caught there, and initialize goes on in every case.
StakingTokenCheck(d) ==
  IF d = "stake" /\ stakingToken # TOKEN_ADDRESS THEN "warned" ELSE "passed"

\* initialize(): the connection check passes and the run enters the driver.
initialize ==
  /\ pc = "initialize"
  /\ is_connected' = "yes"
  /\ StakingTokenCheck(driver) \in {"passed", "warned"}
  /\ pc' = IF driver = "b2s" THEN "estimate_gas" ELSE "check_balance"
  /\ leg' = IF driver = "b2s" THEN 0 ELSE 1
  /\ UNCHANGED <<inputs, peer, output, ledger, locals, result, ghosts>>

\* is_connected() is false and initialize goes on all the same.
initialize_not_connected_ignored ==
  /\ pc = "initialize"
  /\ is_connected' = "no"
  /\ pc' = IF driver = "b2s" THEN "estimate_gas" ELSE "check_balance"
  /\ leg' = IF driver = "b2s" THEN 0 ELSE 1
  /\ UNCHANGED <<inputs, peer, output, ledger, locals, result, ghosts>>

\* initialize(): is_connected() is false.
initialize_not_connected ==
  /\ pc = "initialize"
  /\ is_connected' = "no"
  /\ Fail("ConnectivityError")
  /\ UNCHANGED <<inputs, peer, output, leg, ledger, locals, ghosts>>

\* `if amount == 0` (liquidity), `if amount < self.MIN_STAKE_AMOUNT` (stake);
\* the swap guard has no amount check.
AmountRejectedZeroOnly(d, a) == d \in {"liq", "stake"} /\ a = 0
AmountRejected(d, a) ==
  \/ d = "liq" /\ a = 0
  \/ d = "stake" /\ a < MIN_STAKE_AMOUNT

\* The stake cap check: both views are read and `amount > max_stake -
\* user_staked` raises inside the try block, whose bare `except:` catches the
\* raise as well as an unavailable view; either way the check is skipped.
CapCheckUnavailableFails(d, a) ==
  IF d # "stake" THEN "none"
  ELSE IF maxStake = Unavailable THEN "failed"
  ELSE IF a > maxStake - userStaked THEN "skipped"
  ELSE "passed"
CapCheck(d, a) ==
  IF d # "stake" THEN "none"
  ELSE IF maxStake = Unavailable THEN "skipped"
  ELSE IF a > maxStake - userStaked THEN "skipped"
  ELSE "passed"

\* The error, if any, that leaves check_balance_and_approval before the
\* balance is read: the amount check's, or one escaping the cap check.
PreconditionError(d, a) ==
  IF AmountRejected(d, a) THEN "InvalidAmountError"
  ELSE IF CapCheck(d, a) = "failed" THEN "LimitExceededError"
  ELSE "none"

\* Where the run goes when check_balance_and_approval returns for leg l.
AfterGuardPcNoDryRun(d, l) ==
  IF d = "liq" /\ l = 1 THEN "check_balance" ELSE "estimate_gas"
AfterGuardPc(d, l) ==
  IF d = "liq" /\ l = 1 THEN "check_balance"
  ELSE IF d = "stake" THEN "dry_run"
  ELSE "estimate_gas"

AfterGuardLeg(d, l) == IF d = "liq" /\ l = 1 THEN 2 ELSE 0

\* check_balance_and_approval: the amount check rejects the leg.
check_amount_rejected ==
  /\ pc = "check_balance"
  /\ PreconditionError(driver, amount[leg]) # "none"
  /\ Fail(PreconditionError(driver, amount[leg]))
  /\ UNCHANGED <<context, leg, ledger, locals, ghosts>>

\* The values the insufficient-balance exception text names: the liquidity
\* and swap guards format the balance read and the amount required into it,
\* the stake guard raises a fixed text.
BalanceDetail(d, balance_, amount_) ==
  IF d = "stake" THEN <<>> ELSE <<balance_, amount_>>

\* check_balance_and_approval: balanceOf is read and is below the amount.
check_balance_insufficient ==
  /\ pc = "check_balance"
  /\ PreconditionError(driver, amount[leg]) = "none"
  /\ cap_check' = CapCheck(driver, amount[leg])
  /\ balance' = tokBalance[leg]
  /\ balance' < amount[leg]
  /\ pc' = "done"
  /\ result' = [Raised("InsufficientBalanceError") EXCEPT
                  !.detail = BalanceDetail(driver, balance', amount[leg])]
  /\ UNCHANGED <<context, leg, ledger, allowance, estimated_gas, txn, tx_hash,
                 ghosts>>

\* check_balance_and_approval: balanceOf is read and covers the amount.
check_balance_sufficient ==
  /\ pc = "check_balance"
  /\ PreconditionError(driver, amount[leg]) = "none"
  /\ cap_check' = CapCheck(driver, amount[leg])
  /\ balance' = tokBalance[leg]
  /\ ~(balance' < amount[leg])
  /\ balance_ok' = balance_ok \cup {leg}
  /\ pc' = "check_allowance"
  /\ UNCHANGED <<context, leg, ledger, allowance, estimated_gas, txn, tx_hash,
                 result, allowance_ok, receipts, estimate_reverted>>

\* check_balance_and_approval: allowance is read and covers the amount; the
\* guard returns without building anything.
check_allowance_sufficient ==
  /\ pc = "check_allowance"
  /\ allowance' = tokAllowance[leg]
  /\ ~NeedsApproval(allowance', amount[leg])
  /\ allowance_ok' = allowance_ok \cup {leg}
  /\ pc' = AfterGuardPc(driver, leg)
  /\ leg' = AfterGuardLeg(driver, leg)
  /\ UNCHANGED <<context, ledger, balance, cap_check, estimated_gas, txn,
                 tx_hash, result, balance_ok, receipts, estimate_reverted>>

\* check_balance_and_approval: allowance is read and is short; the approval
\* is built with the nonce read now and the fixed gas limit.
build_approve ==
  /\ pc = "check_allowance"
  /\ allowance' = tokAllowance[leg]
  /\ NeedsApproval(allowance', amount[leg])
  /\ txn' = [kind |-> "approve", leg |-> leg,
             nonce |-> get_transaction_count,
             gas |-> APPROVE_GAS, value |-> ApproveAmount(amount[leg]),
             status |-> "pending"]
  /\ pc' = "send_approve"
  /\ UNCHANGED <<context, leg, ledger, balance, cap_check, estimated_gas,
                 tx_hash, result, ghosts>>

\* The approval is sent and the guard returns without waiting for its receipt.
send_approve_no_wait ==
  /\ pc = "send_approve"
  /\ txs' = Append(txs, txn)
  /\ tx_hash' = Len(txs) + 1
  /\ txn' = NoTx
  /\ pc' = AfterGuardPc(driver, leg)
  /\ leg' = AfterGuardLeg(driver, leg)
  /\ UNCHANGED <<context, tokBalance, tokAllowance, chainNonce, maxStake,
                 userStaked, paused, stakingToken, balance, allowance,
                 cap_check, estimated_gas,
                 result, ghosts>>

\* sign_transaction + send_raw_transaction of the approval.
send_approve ==
  /\ pc = "send_approve"
  /\ txs' = Append(txs, txn)
  /\ tx_hash' = Len(txs) + 1
  /\ txn' = NoTx
  /\ pc' = "wait_approve"
  /\ UNCHANGED <<context, leg, tokBalance, tokAllowance, chainNonce, maxStake,
                 userStaked, paused, stakingToken, balance, allowance,
                 cap_check, estimated_gas,
                 result, ghosts>>

\* send_raw_transaction of the approval raises; nothing was broadcast.
send_approve_fails ==
  /\ pc = "send_approve"
  /\ txn' = NoTx
  /\ Fail("BroadcastError")
  /\ UNCHANGED <<context, leg, ledger, balance, allowance, cap_check,
                 estimated_gas, tx_hash, ghosts>>

\* wait_for_transaction_receipt of the approval returns a receipt.
wait_approve_receipt ==
  /\ pc = "wait_approve"
  /\ txs[tx_hash].status # "pending"
  /\ receipts' = receipts \cup {<<tx_hash, txs[tx_hash].status>>}
  /\ IF ApprovalFailed(txs[tx_hash].status)
     THEN /\ Fail("ApprovalError")
          /\ UNCHANGED <<leg, allowance_ok>>
     ELSE /\ allowance_ok' = allowance_ok \cup {leg}
          /\ pc' = AfterGuardPc(driver, leg)
          /\ leg' = AfterGuardLeg(driver, leg)
          /\ UNCHANGED result
  /\ UNCHANGED <<context, ledger, locals, balance_ok, estimate_reverted>>

\* The approval's timeout is caught and the guard returns.
wait_approve_timeout_ignored ==
  /\ pc = "wait_approve"
  /\ txs[tx_hash].status = "pending"
  /\ pc' = AfterGuardPc(driver, leg)
  /\ leg' = AfterGuardLeg(driver, leg)
  /\ UNCHANGED <<context, ledger, locals, result, ghosts>>

\* wait_for_transaction_receipt of the approval finds no receipt within the
\* timeout; the client's TimeExhausted leaves the guard and the driver.
wait_approve_timeout ==
  /\ pc = "wait_approve"
  /\ txs[tx_hash].status = "pending"
  /\ FailTimeout
  /\ UNCHANGED <<context, leg, ledger, locals, ghosts>>

\* The ledger includes a broadcast transaction, in nonce order, with success
\* or failure status.  A successful approve sets the allowance to its value.
IncludeTx ==
  \E i \in 1..Len(txs), ok \in BOOLEAN :
    /\ txs[i].status = "pending"
    /\ txs[i].nonce = chainNonce
    /\ txs' = [txs EXCEPT ![i].status = IF ok THEN "success" ELSE "reverted"]
    /\ chainNonce' = chainNonce + 1
    /\ tokAllowance' =
         IF ok /\ txs[i].kind = "approve"
         THEN [tokAllowance EXCEPT ![txs[i].leg] = txs[i].value]
         ELSE tokAllowance
    /\ UNCHANGED <<context, pc, leg, tokBalance, maxStake, userStaked, paused,
                   stakingToken, locals, result, ghosts>>

\* deposit(amount).call(): the stake driver's dry-run passes.
dry_run ==
  /\ pc = "dry_run"
  /\ pc' = "estimate_gas"
  /\ UNCHANGED <<context, leg, ledger, locals, result, ghosts>>

\* The dry-run raises.
dry_run_fails ==
  /\ pc = "dry_run"
  /\ Fail("DryRunError")
  /\ UNCHANGED <<context, leg, ledger, locals, ghosts>>

\* estimate_gas of the primary call returns a positive estimate.
estimate_gas ==
  /\ pc = "estimate_gas"
  /\ \E g \in 1..MaxGas : estimated_gas' = g
  /\ pc' = "build_transaction"
  /\ UNCHANGED <<context, leg, ledger, balance, allowance, cap_check, txn,
                 tx_hash, result, ghosts>>

\* estimate_gas raises and the raise is swallowed: the build goes on with a
\* fallback estimate.
estimate_gas_reverts_swallowed ==
  /\ pc = "estimate_gas"
  /\ estimate_reverted' = TRUE
  /\ estimated_gas' = 1
  /\ pc' = "build_transaction"
  /\ UNCHANGED <<context, leg, ledger, balance, allowance, cap_check, txn,
                 tx_hash, result, balance_ok, allowance_ok, receipts>>

\* estimate_gas raises because the call would revert; the raise leaves the
\* driver (re-raised as it is, or wrapped by build_transaction).
estimate_gas_reverts ==
  /\ pc = "estimate_gas"
  /\ estimate_reverted' = TRUE
  /\ Fail("EstimationError")
  /\ UNCHANGED <<context, leg, ledger, locals, balance_ok, allowance_ok,
                 receipts>>

\* build_transaction of the primary call: nonce read now, padded gas.
build_transaction ==
  /\ pc = "build_transaction"
  /\ txn' = [kind |-> "primary", leg |-> 0,
             nonce |-> get_transaction_count,
             gas |-> PadGas(estimated_gas, GAS_MULTIPLIER(driver)),
             value |-> 0, status |-> "pending"]
  /\ pc' = "send_transaction"
  /\ UNCHANGED <<context, leg, ledger, balance, allowance, cap_check,
                 estimated_gas, tx_hash, result, ghosts>>

\* The built transaction is broadcast, and broadcast once more.
send_transaction_resend ==
  /\ pc = "send_transaction"
  /\ txs' = Append(Append(txs, txn), txn)
  /\ tx_hash' = Len(txs) + 2
  /\ txn' = NoTx
  /\ pc' = "wait_receipt"
  /\ UNCHANGED <<context, leg, tokBalance, tokAllowance, chainNonce, maxStake,
                 userStaked, paused, stakingToken, balance, allowance,
                 cap_check, estimated_gas, result, ghosts>>

\* The hash is returned as soon as the transaction is broadcast.
send_transaction_no_wait ==
  /\ pc = "send_transaction"
  /\ txs' = Append(txs, txn)
  /\ tx_hash' = Len(txs) + 1
  /\ txn' = NoTx
  /\ pc' = "done"
  /\ result' = Returned(Len(txs) + 1)
  /\ UNCHANGED <<context, leg, tokBalance, tokAllowance, chainNonce, maxStake,
                 userStaked, paused, stakingToken, balance, allowance,
                 cap_check, estimated_gas, ghosts>>

\* sign_transaction + send_raw_transaction of the primary call.
send_transaction ==
  /\ pc = "send_transaction"
  /\ txs' = Append(txs, txn)
  /\ tx_hash' = Len(txs) + 1
  /\ txn' = NoTx
  /\ pc' = "wait_receipt"
  /\ UNCHANGED <<context, leg, tokBalance, tokAllowance, chainNonce, maxStake,
                 userStaked, paused, stakingToken, balance, allowance,
                 cap_check, estimated_gas,
                 result, ghosts>>

\* send_raw_transaction of the primary call raises; nothing was broadcast.
send_transaction_fails ==
  /\ pc = "send_transaction"
  /\ txn' = NoTx
  /\ Fail("BroadcastError")
  /\ UNCHANGED <<context, leg, ledger, balance, allowance, cap_check,
                 estimated_gas, tx_hash, ghosts>>

\* wait_for_transaction_receipt of the primary call returns a receipt:
\* status 1 returns the hash, anything else raises.
wait_receipt ==
  /\ pc = "wait_receipt"
  /\ txs[tx_hash].status # "pending"
  /\ receipts' = receipts \cup {<<tx_hash, txs[tx_hash].status>>}
  /\ IF ReceiptSucceeded(txs[tx_hash].status)
     THEN /\ pc' = "done"
          /\ result' = Returned(tx_hash)
     ELSE Fail("RevertedError")
  /\ UNCHANGED <<context, leg, ledger, locals, balance_ok, allowance_ok,
                 estimate_reverted>>

\* No receipt within the timeout: the client's TimeExhausted is re-raised as
\* it is; the driver adds nothing to it.
wait_receipt_timeout ==
  /\ pc = "wait_receipt"
  /\ txs[tx_hash].status = "pending"
  /\ FailTimeout
  /\ UNCHANGED <<context, leg, ledger, locals, ghosts>>

\* main() counts every outcome as a success.
main_always_success ==
  /\ pc = "done"
  /\ output = NoOutput
  /\ output' = [line |-> "success", hash |-> result.hash, exit |-> 0]
  /\ UNCHANGED <<inputs, is_connected, peer, pc, leg, ledger, locals, result,
                 ghosts>>

\* main(): the driver returned and the success line with its hash is printed,
\* or initialize or the driver raised and the except branch prints the
\* failure line and calls exit(1).
main ==
  /\ pc = "done"
  /\ output = NoOutput
  /\ output' = IF result.kind = "returned"
                  THEN [line |-> "success", hash |-> result.hash, exit |-> 0]
                  ELSE [line |-> "failure", hash |-> result.hash, exit |-> 1]
  /\ UNCHANGED <<inputs, is_connected, peer, pc, leg, ledger, locals, result,
                 ghosts>>

Next ==
  \/ initialize
  \/ initialize_not_connected
  \/ check_amount_rejected
  \/ check_balance_insufficient
  \/ check_balance_sufficient
  \/ check_allowance_sufficient
  \/ build_approve
  \/ send_approve
  \/ send_approve_fails
  \/ wait_approve_receipt
  \/ wait_approve_timeout
  \/ IncludeTx
  \/ dry_run
  \/ dry_run_fails
  \/ estimate_gas
  \/ estimate_gas_reverts
  \/ build_transaction
  \/ send_transaction
  \/ send_transaction_fails
  \/ wait_receipt
  \/ wait_receipt_timeout
  \/ main

Spec == Init /\ [][Next]_vars

\* ------------------------------------------------- a concurrent orchestrator
\* A second process runs a primary call for the same signer (the path of
\* TransactionHandler.build_transaction / send_transaction).  The drivers
\* hold no lock: each reads the account nonce on its own.

runState == <<pc, leg, locals, result, ghosts, is_connected>>

\* build_transaction of the second orchestrator: its nonce read.
peer_build_transaction ==
  /\ peer.pc = "build_transaction"
  /\ peer' = [peer EXCEPT !.pc = "send_transaction",
                          !.nonce = get_transaction_count]
  /\ UNCHANGED <<inputs, output, ledger, runState>>

\* send_transaction of the second orchestrator.
peer_send_transaction ==
  /\ peer.pc = "send_transaction"
  /\ txs' = Append(txs, [kind |-> "peer", leg |-> 0, nonce |-> peer.nonce,
                         gas |-> 0, value |-> 0, status |-> "pending"])
  /\ peer' = [peer EXCEPT !.pc = "wait_receipt", !.hash = Len(txs) + 1]
  /\ UNCHANGED <<inputs, output, tokBalance, tokAllowance, chainNonce, maxStake,
                 userStaked, paused, stakingToken, runState>>

\* The second orchestrator's wait ends, with a receipt or by timeout.
peer_wait_receipt ==
  /\ peer.pc = "wait_receipt"
  /\ peer' = [peer EXCEPT !.pc = "done"]
  /\ UNCHANGED <<inputs, output, ledger, runState>>

NextConcurrent ==
  \/ Next
  \/ peer_build_transaction
  \/ peer_send_transaction
  \/ peer_wait_receipt

SpecConcurrent == InitConcurrent /\ [][NextConcurrent]_vars


\* ------------------------------------------------------------------ claims

\* The input token legs of a driver's primary call: both tokens of
\* addLiquidity, the input token (routes[0]["from"], amount_in) of a swap, the
\* staked token of deposit.
InputLegs(d) == IF d = "liq" THEN {1, 2} ELSE {1}

PrimaryBroadcast == \E i \in 1..Len(txs) : txs[i].kind = "primary"

\* C1: a run returns a transaction hash only if that hash is the broadcast
\* primary transaction and a receipt with status 1 was observed for it.
ConfirmationBeforeSuccess ==
  result.kind = "returned" =>
    /\ result.hash \in 1..Len(txs)
    /\ txs[result.hash].kind = "primary"
    /\ <<result.hash, "success">> \in receipts
    /\ <<result.hash, "reverted">> \notin receipts

ConfirmedRun ==
  /\ result.kind = "returned"
  /\ result.hash = tx_hash
  /\ txs[tx_hash].kind = "primary"
  /\ txs[tx_hash].status = "success"

\* C2: in every driver the primary call is estimated, built and broadcast
\* only after the balance of each input token was read and found sufficient
\* and its allowance was read and found or made sufficient.
PreconditionsPrecedePrimary ==
  (\/ pc \in {"build_transaction", "send_transaction", "wait_receipt"}
   \/ estimated_gas > 0
   \/ estimate_reverted
   \/ PrimaryBroadcast)
  => \A l \in InputLegs(driver) : l \in balance_ok /\ l \in allowance_ok

\* C3: when the allowance the guard reads already covers a positive required
\* amount, the guard's step builds and broadcasts nothing, leaves the nonce
\* alone and hands the run on to the step after the guard.
GuardIdempotent ==
  [][(/\ pc = "check_allowance"
      /\ amount[leg] > 0
      /\ tokAllowance[leg] >= amount[leg])
     => (/\ txs' = txs
         /\ txn' = NoTx
         /\ chainNonce' = chainNonce
         /\ result' = Running
         /\ pc' \in {"check_balance", "dry_run", "estimate_gas"})]_vars

GuardSkippedApproval ==
  /\ driver = "s2b"
  /\ pc = "build_transaction"
  /\ amount[1] > 0
  /\ 1 \in allowance_ok
  /\ txs = <<>>

\* C4: when the guard had to approve, every step that ends the guard either
\* returns normally with allowance(owner, spender) >= required on the ledger,
\* or fails the run with no primary call estimated, built or broadcast.
GuardPostcondition ==
  [][(/\ pc \in {"send_approve", "wait_approve"}
      /\ pc' \notin {"send_approve", "wait_approve"})
     => IF pc' = "done"
        THEN /\ result'.kind = "raised"
             /\ estimated_gas' = 0
             /\ ~estimate_reverted'
             /\ txn'.kind # "primary"
             /\ \A i \in 1..Len(txs') : txs'[i].kind # "primary"
        ELSE /\ result' = Running
             /\ tokAllowance'[leg] >= amount[leg]]_vars

GuardApprovedAndReturned ==
  /\ driver = "stake"
  /\ pc = "dry_run"
  /\ Len(txs) = 1
  /\ txs[1].kind = "approve"
  /\ allowance < amount[1]
  /\ tokAllowance[1] >= amount[1]

\* C5: a run that fails on insufficient balance of any leg has broadcast no
\* transaction at all.
InsufficientBalanceNoTransaction ==
  result.err = "InsufficientBalanceError" => txs = <<>>

\* C6: when estimate_gas of the primary call reverts, the run fails with the
\* estimation error and no primary transaction is built, signed or broadcast.
EstimationFailureNotSubmitted ==
  estimate_reverted =>
    /\ pc = "done"
    /\ result = Raised("EstimationError")
    /\ txn = NoTx
    /\ ~PrimaryBroadcast

EstimationFailed ==
  /\ estimate_reverted
  /\ result.err = "EstimationError"
  /\ Len(txs) = 1

\* C7: a run that fails because the primary transaction was included with
\* failure status hands its caller the hash obtained at broadcast time.
RevertedCarriesHash ==
  result.err = "RevertedError" =>
    /\ tx_hash # NoHash
    /\ result.hash = tx_hash

\* C8: a run whose primary transaction got no receipt within the wait ends
\* with a timeout error distinct from the revert error and still hands its
\* caller the hash of the broadcast transaction.
TimeoutCarriesHash ==
  (/\ result.err = "TimeExhausted"
   /\ tx_hash # NoHash
   /\ txs[tx_hash].kind = "primary")
  => /\ result.err # "RevertedError"
     /\ result.hash = tx_hash

\* C9 (as stated): the gas limit of the primary transaction is the ceiling
\* of estimatedGas x GAS_MULTIPLIER.
GasIsCeiling ==
  \A i \in 1..Len(txs) :
    txs[i].kind = "primary" =>
      /\ 10 * txs[i].gas >= estimated_gas * GAS_MULTIPLIER(driver)
      /\ 10 * (txs[i].gas - 1) < estimated_gas * GAS_MULTIPLIER(driver)

\* C9 (amended): the gas limit of the primary transaction is the floor of
\* estimatedGas x GAS_MULTIPLIER, for the driver's multiplier.
GasIsFloor ==
  /\ estimated_gas >= 0
  /\ \A i \in 1..Len(txs) :
       txs[i].kind = "primary" =>
         /\ estimated_gas > 0
         /\ 10 * txs[i].gas <= estimated_gas * GAS_MULTIPLIER(driver)
         /\ 10 * (txs[i].gas + 1) > estimated_gas * GAS_MULTIPLIER(driver)
         /\ GAS_MULTIPLIER(driver) = IF driver = "stake" THEN 15 ELSE 12

GasTruncated ==
  /\ driver = "stake"
  /\ estimated_gas = 3
  /\ PrimaryBroadcast
  /\ txs[tx_hash].kind = "primary"
  /\ txs[tx_hash].gas = 4

\* C10: every approval the guard builds or broadcasts is for exactly the
\* required amount of its leg, and once that approval is confirmed the run
\* goes on toward the primary call.
ExactApprovalThenProceed ==
  /\ [](/\ txn.kind = "approve" => txn.value = amount[txn.leg]
        /\ \A i \in 1..Len(txs) :
             txs[i].kind = "approve" => txs[i].value = amount[txs[i].leg])
  /\ [][(/\ pc = "wait_approve"
         /\ txs[tx_hash].status = "success")
        => (/\ result' = Running
            /\ pc' \in {"check_balance", "dry_run", "estimate_gas"})]_vars

ApprovedExactlyThenConfirmed ==
  /\ driver = "s2b"
  /\ amount[1] = 1
  /\ allowance = 0
  /\ balance = 2
  /\ Len(txs) = 2
  /\ txs[1].kind = "approve"
  /\ txs[1].value = 1
  /\ txs[2].kind = "primary"
  /\ result = Returned(2)

\* C11: a run whose required amount is zero or negative reads no balance or
\* allowance and builds no transaction: once past the connection check it
\* has failed with the invalid-amount error.
InvalidAmountRejectedFirst ==
  amount[1] <= 0
  => /\ pc \in {"initialize", "check_balance", "done"}
     /\ result.err \in {"none", "ConnectivityError", "InvalidAmountError"}
     /\ balance_ok = {}
     /\ allowance_ok = {}
     /\ estimated_gas = 0
     /\ txs = <<>>

\* C12: a stake run whose cap and committed amount are readable and whose
\* amount exceeds cap - committed fails with the limit-exceeded error once
\* the cap check has run, and broadcasts nothing.
StakeCapEnforced ==
  (/\ driver = "stake"
   /\ maxStake # Unavailable
   /\ amount[1] > maxStake - userStaked)
  => /\ txs = <<>>
     /\ cap_check # "none" => result = Raised("LimitExceededError")

\* C13: in the stake driver, when the cap views cannot be read the cap check
\* is skipped and the verifier's step goes on to decide on the balance alone.
CapCheckDegrades ==
  [][(/\ driver = "stake"
      /\ pc = "check_balance"
      /\ amount[1] >= MIN_STAKE_AMOUNT
      /\ maxStake = Unavailable)
     => (/\ cap_check' = "skipped"
         /\ balance' = tokBalance[1]
         /\ IF tokBalance[1] < amount[1]
            THEN result' = Raised("InsufficientBalanceError")
            ELSE result' = Running /\ pc' = "check_allowance")]_vars

CapCheckSkippedAndDeposited ==
  /\ driver = "stake"
  /\ maxStake = Unavailable
  /\ cap_check = "skipped"
  /\ result.kind = "returned"

ReceiptObtained(h) == \E st \in {"success", "reverted"} : <<h, st>> \in receipts

\* C14: a transaction of the run is built (its nonce read) and broadcast only
\* after a receipt was obtained for every transaction broadcast before it,
\* and at no time are two broadcast transactions of the run both unconfirmed.
ApprovalConfirmedBeforeNextWrite ==
  /\ txn # NoTx => \A i \in 1..Len(txs) : ReceiptObtained(i)
  /\ \A j \in 2..Len(txs) : ReceiptObtained(j - 1)
  /\ \A i, j \in 1..Len(txs) :
       (txs[i].status = "pending" /\ txs[j].status = "pending") => i = j

PrimaryPendingAfterApproval ==
  /\ driver = "liq"
  /\ Len(txs) = 3
  /\ txs[1].kind = "approve"
  /\ txs[2].kind = "approve"
  /\ txs[3].kind = "primary"
  /\ txs[3].status = "pending"

ReceiptWaitHasExplicitTimeout ==
  pc \in {"wait_approve", "wait_receipt"} =>
    \E t \in WaitTimeoutArgs(driver) : t > 0

\* C17: when two operations run concurrently for the same signer, no two
\* transactions broadcast for that signer carry the same nonce.
NoNonceSharedAcrossOrchestrators ==
  \A i, j \in 1..Len(txs) : i # j => txs[i].nonce # txs[j].nonce

\* C18: unless the connection check has passed, the run has read nothing
\* from the ledger and built or broadcast nothing; when the check fails the
\* run fails with the connectivity error.
ConnectivityGate ==
  /\ is_connected # "yes"
     => /\ pc \in {"initialize", "done"}
        /\ txs = <<>>
        /\ txn = NoTx
        /\ tx_hash = NoHash
        /\ cap_check = "none"
        /\ balance_ok = {}
        /\ allowance_ok = {}
        /\ receipts = {}
        /\ estimated_gas = 0
        /\ ~estimate_reverted
  /\ is_connected = "no" => pc = "done" /\ result = Raised("ConnectivityError")
  /\ is_connected = "unchecked" => pc = "initialize"

NotConnectedRunFailed ==
  /\ driver = "stake"
  /\ is_connected = "no"
  /\ result = Raised("ConnectivityError")

\* C19: a stake run against a staking contract whose paused() is true
\* broadcasts no transaction, neither an approval nor the deposit.
PausedRejectedBeforeWrite ==
  (driver = "stake" /\ paused) => txs = <<>>

\* C20: a built transaction carries the account nonce as it is on the ledger
\* at that time, no two broadcast transactions of a run carry the same nonce,
\* and each transaction's nonce is the one after its predecessor's.
NonceDiscipline ==
  /\ txn # NoTx => txn.nonce = chainNonce
  /\ \A i, j \in 1..Len(txs) : i # j => txs[i].nonce # txs[j].nonce
  /\ \A i \in 1..Len(txs) : i > 1 => txs[i].nonce = txs[i - 1].nonce + 1

ApprovalAndPrimaryConsecutive ==
  /\ driver = "stake"
  /\ Len(txs) = 2
  /\ txs[1].kind = "approve"
  /\ txs[2].kind = "primary"
  /\ txs[2].nonce = txs[1].nonce + 1
\* C21: each built transaction is broadcast at most once (a broadcast adds
\* exactly the one transaction the run had built and consumes it, and no two
\* broadcasts of a run are of the same call), and once the run has failed it
\* broadcasts nothing more and takes no further step.
NoRetry ==
  /\ [](\A i, j \in 1..Len(txs) :
          i # j => <<txs[i].kind, txs[i].leg>> # <<txs[j].kind, txs[j].leg>>)
  /\ [][/\ Len(txs') # Len(txs) =>
             /\ txn # NoTx
             /\ txs' = Append(txs, txn)
             /\ txn' = NoTx
       /\ result.kind = "raised" =>
             /\ Len(txs') = Len(txs)
             /\ pc' = "done" /\ pc = "done"
             /\ result' = result
             /\ txn' = txn]_vars

FailedAfterOneBroadcast ==
  /\ driver = "b2s"
  /\ result = Raised("RevertedError")
  /\ Len(txs) = 1
  /\ txs[1].kind = "primary"
  /\ output.line = "failure"

\* The position of a step in the primary call's pipeline; 0 for the steps
\* before it.
PipelineStep(p) ==
  CASE p = "estimate_gas" -> 1
    [] p = "build_transaction" -> 2
    [] p = "send_transaction" -> 3
    [] p = "wait_receipt" -> 4
    [] p = "done" -> 5
    [] OTHER -> 0

\* C22: the primary call goes through gas estimation, nonce read and build,
\* signing and broadcast, receipt wait, in this order: a step is entered only
\* from the step before it, a step is left only for the next one or for the
\* failed outcome, the hash is returned only from the receipt wait, and once
\* the run has returned or raised neither its position nor its outcome
\* changes.
OrchestratorStepOrder ==
  [][/\ (pc' # pc /\ PipelineStep(pc') \in 2..4) =>
           PipelineStep(pc) = PipelineStep(pc') - 1
     /\ (pc' # pc /\ PipelineStep(pc) >= 1) =>
           \/ PipelineStep(pc') = PipelineStep(pc) + 1
           \/ pc' = "done" /\ result'.kind = "raised"
     /\ (result'.kind = "returned" /\ result.kind # "returned") =>
           pc = "wait_receipt"
     /\ result.kind # "running" => pc = "done" /\ pc' = pc /\ result' = result
    ]_vars

PipelineCompleted ==
  /\ result.kind = "returned"
  /\ estimated_gas > 0
  /\ txs[result.hash].kind = "primary"
  /\ txs[result.hash].gas = PadGas(estimated_gas, GAS_MULTIPLIER(driver))
  /\ <<result.hash, "success">> \in receipts

\* C26: every approval transaction carries the gas limit 100000 and no
\* estimate_gas call has been made by the time the guard is over, while every
\* primary transaction carries the padded result of the estimate_gas call
\* made in the same run.
ApprovalGasFixed ==
  /\ \A i \in 1..Len(txs) : txs[i].kind = "approve" => txs[i].gas = 100000
  /\ txn.kind = "approve" => txn.gas = 100000
  /\ (\/ pc \in {"initialize", "check_balance", "check_allowance",
                  "send_approve", "wait_approve", "dry_run"}
      \/ txn.kind = "approve") =>
        estimated_gas = 0 /\ ~estimate_reverted
  /\ \A t \in {txn} \cup {txs[i] : i \in 1..Len(txs)} :
       t.kind = "primary" =>
         /\ estimated_gas > 0
         /\ 10 * t.gas <= estimated_gas * GAS_MULTIPLIER(driver)
         /\ 10 * (t.gas + 1) > estimated_gas * GAS_MULTIPLIER(driver)

ApprovedAtFixedGasThenEstimated ==
  /\ Len(txs) = 2
  /\ txs[1].kind = "approve" /\ txs[1].gas = 100000
  /\ txs[2].kind = "primary" /\ txs[2].gas = 2
  /\ estimated_gas = 2

\* C28: the stake driver estimates its deposit only after the read-only
\* deposit call passed; when that call raises the run fails after a
\* successful guard with nothing estimated, built or broadcast for the
\* deposit, and an approval of the same run stays confirmed on the ledger
\* with its allowance in force.
DryRunGate ==
  /\ [](result.err = "DryRunError" =>
          /\ driver = "stake" /\ pc = "done"
          /\ 1 \in balance_ok /\ 1 \in allowance_ok
          /\ estimated_gas = 0 /\ ~estimate_reverted
          /\ txn = NoTx /\ ~PrimaryBroadcast
          /\ \A i \in 1..Len(txs) :
               /\ txs[i].kind = "approve" /\ txs[i].status = "success"
               /\ tokAllowance[1] = txs[i].value)
  /\ [][(driver = "stake" /\ pc' = "estimate_gas" /\ pc # "estimate_gas") =>
          pc = "dry_run" /\ result' = Running]_vars

DryRunFailedAfterApproval ==
  /\ result = Raised("DryRunError")
  /\ Len(txs) = 1
  /\ txs[1].kind = "approve"
  /\ tokAllowance[1] = amount[1]

\* C29: a stake amount below MIN_STAKE_AMOUNT is rejected before the cap,
\* the balance or the allowance is read and before anything is built or
\* broadcast, and no step of such a run changes the ledger.
StakeMinimumAmount ==
  /\ []((driver = "stake" /\ amount[1] < MIN_STAKE_AMOUNT) =>
          /\ cap_check = "none"
          /\ balance_ok = {} /\ allowance_ok = {}
          /\ txn = NoTx /\ txs = <<>> /\ chainNonce = 0
          /\ pc \in {"initialize", "check_balance", "done"}
          /\ result.err \in {"none", "ConnectivityError", "InvalidAmountError"})
  /\ [][(driver = "stake" /\ amount[1] < MIN_STAKE_AMOUNT) =>
          UNCHANGED ledger]_vars

StakeBelowMinimumRejected ==
  /\ driver = "stake"
  /\ amount[1] = 1
  /\ tokBalance[1] >= 1
  /\ result = Raised("InvalidAmountError")

\* C30: a run broadcasts at most one approval per guarded leg and one
\* primary transaction (3 for the liquidity driver, 2 for super_to_black and
\* stake, 1 for black_to_super), and the primary transaction is the last one
\* broadcast.
BoundedWrites ==
  /\ Len(txs) <= CASE driver = "liq" -> 3
                   [] driver \in {"s2b", "stake"} -> 2
                   [] driver = "b2s" -> 1
  /\ \A i \in 1..Len(txs) :
       /\ txs[i].kind = "primary" => i = Len(txs)
       /\ txs[i].kind = "approve" =>
            /\ driver # "b2s"
            /\ txs[i].leg \in InputLegs(driver)
            /\ \A j \in 1..Len(txs) :
                 (txs[j].kind = "approve" /\ txs[j].leg = txs[i].leg) => j = i

ThreeWritesPrimaryLast ==
  /\ driver = "liq"
  /\ Len(txs) = 3
  /\ txs[1].kind = "approve" /\ txs[1].leg = 1
  /\ txs[2].kind = "approve" /\ txs[2].leg = 2
  /\ txs[3].kind = "primary"

\* C23: when stakingToken() answers an address other than the configured
\* token, the stake driver's initialize fails: the run never gets past
\* initialize and nothing is built or broadcast.
StakingTokenMismatchFailsInitialize ==
  (driver = "stake" /\ stakingToken # TOKEN_ADDRESS) =>
    /\ pc \in {"initialize", "done"}
    /\ pc = "done" => result.kind = "raised"
    /\ txn = NoTx
    /\ txs = <<>>

\* C24: when the receipt of a broadcast approval reports a failure, the
\* error the guard raises names the hash of that approval.
ApprovalFailureCarriesHash ==
  result.err = "ApprovalError" =>
    /\ tx_hash # NoHash
    /\ txs[tx_hash].kind = "approve"
    /\ result.hash = tx_hash

\* C25: in every guarded driver the insufficient-balance error names the
\* balance read and the amount required.
InsufficientBalanceDiagnostics ==
  result.err = "InsufficientBalanceError" =>
    /\ balance < amount[leg]
    /\ result.detail = <<balance, amount[leg]>>

\* C27: main() reports once: the success line, with the hash the driver
\* returned and exit status 0, only when the driver returned; the failure
\* line with exit status 1 whenever initialize or the driver raised; and
\* what was reported never changes afterwards.
OneOutcomePerRun ==
  /\ [](output # NoOutput =>
          /\ pc = "done"
          /\ output.line \in {"success", "failure"}
          /\ output.line = "success" <=> result.kind = "returned"
          /\ output.line = "failure" <=> result.kind = "raised"
          /\ output.exit = IF result.kind = "raised" THEN 1 ELSE 0
          /\ result.kind = "returned" => output.hash = result.hash)
  /\ [][output # NoOutput => output' = output /\ result' = result]_vars

FailureReportedOnce ==
  /\ result = Raised("EstimationError")
  /\ output = [line |-> "failure", hash |-> NoHash, exit |-> 1]

\* C31: for every positive estimate and both multipliers the padded gas
\* limit is not below the estimate, and every primary transaction built or
\* broadcast carries a gas limit not below the run's positive estimate.
PaddedGasNotBelowEstimate ==
  /\ \A e \in 1..MaxGas, d \in Drivers : PadGas(e, GAS_MULTIPLIER(d)) >= e
  /\ \A t \in {txn} \cup {txs[i] : i \in 1..Len(txs)} :
       t.kind = "primary" => estimated_gas > 0 /\ t.gas >= estimated_gas

PaddingAddsNothing ==
  /\ driver = "stake"
  /\ estimated_gas = 1
  /\ \E i \in 1..Len(txs) : txs[i].kind = "primary" /\ txs[i].gas = 1

====
